---- MODULE Spec2Model ----
(***************************************************************************)
(* A model of src/tls_visa_bot.py: the status ledger of TLSVisaBot         *)
(* (update_account_status), the two start_workflow definitions that are    *)
(* callable once the module is loaded (the method TLSVisaBot.start_workflow *)
(* of lines 334-471 and the module-level function start_workflow of lines  *)
(* 1117-1467, called with a TLSVisaBot as self), and the calendar monitor. *)
(*                                                                         *)
(* Python binds a name to its last definition: inside class TLSVisaBot     *)
(* (lines 63-531) _handle_cloudflare is the definition of lines 472-494    *)
(* and login the one of lines 496-531; the module-level start_workflow of  *)
(* lines 533-613 is rebound by the one of line 1117 before anything can    *)
(* call it, and the definitions nested in the module-level                 *)
(* send_security_notification (lines 761-1070) are never called.  Two of   *)
(* those definitions, the start_workflow of lines 808-868 and the one of   *)
(* lines 870-932, are modelled as they are written, each in a              *)
(* specification of its own (SpecUnauthenticated, SpecVariant).            *)
(***************************************************************************)
EXTENDS Integers, Sequences, FiniteSets, TLC

VARIABLES
    account_history,   \* self.account_history: email -> account record
    history_file,      \* results/account_history.json, as last written
    now,               \* the wall clock read by datetime.now()
    current_step,      \* self.current_step
    logged_in,         \* self.logged_in
    current_account,   \* self.current_account (the email in it, or NoAccount)
    pc,                \* position of the running start_workflow coroutine
    entry,             \* which start_workflow definition is running
    email,             \* argument email of the running call
    center,            \* argument center of the running call
    retry_count,       \* local retry_count of the login-form loop
    pending,           \* what the coroutine will deliver once finally has run
    outcome,           \* what the last finished call delivered to its caller
    runs,              \* number of start_workflow calls made so far
    obs,               \* observations of the running call (history variables)
    calls,             \* number of update_account_status calls per email
    mon,               \* state of the calendar monitor
    bots,              \* the TLSVisaBot instances that share the results directory
    sessions,          \* the start_workflow coroutines running on those instances
    security_alerts,   \* results/security_alerts.log: the alerts written to it
    notification       \* the last send_security_notification call and its result

vars == <<account_history, history_file, now, current_step, logged_in,
          current_account, pc, entry, email, center, retry_count, pending,
          outcome, runs, obs, calls, mon, bots, sessions, security_alerts,
          notification>>

ledgerVars == <<account_history, history_file, now, calls>>
botVars == <<current_step, logged_in, current_account>>
runVars == <<pc, entry, email, center, retry_count, pending, outcome, runs, obs>>
fleetVars == <<bots, sessions>>
alertVars == <<security_alerts, notification>>

-----------------------------------------------------------------------------
(* Bounds of the model *)

MaxRuns == 2       \* start_workflow calls explored on one bot
MaxClock == 1      \* largest clock reading explored
MaxCalls == 2      \* direct update_account_status calls explored (SpecLedger)
MaxTime == 7       \* monitoring time limit, in seconds (SpecMonitor)
MaxStep == 12      \* largest value of current_step explored (SpecLabel)
MaxCrashes == 1    \* crashes of one instance explored (SpecSessions)
MaxAlerts == 3     \* direct send_security_notification calls explored (SpecAlerts)

Identities == {"a@x.com", "b@y.com"}
CenterInputs == {"PAR", "xxx"}

-----------------------------------------------------------------------------
(* class AccountStatus, lines 48-61 *)

AccountStatus ==
    [INIT |-> "INITIALIZING",
     LOGIN_FAILED |-> "LOGIN FAILED",
     LOGGED_IN |-> "LOGGED IN",
     BOOKING |-> "BOOKING",
     BOOKED |-> "BOOKED",
     FAILED |-> "FAILED",
     CLOUDFLARE |-> "CLOUDFLARE BLOCKED",
     BOOKING_FAILED |-> "BOOKING FAILED",
     CALENDAR_ERROR |-> "CALENDAR ERROR",
     SESSION_EXPIRED |-> "SESSION EXPIRED",
     NETWORK_ERROR |-> "NETWORK ERROR",
     MAINTENANCE |-> "SITE MAINTENANCE"]

AllStatuses == {AccountStatus[f] : f \in DOMAIN AccountStatus}

\* The statuses the specification marks terminal (spec 4.2).
TerminalStatuses == AllStatuses \ {AccountStatus.INIT, AccountStatus.LOGGED_IN,
                                   AccountStatus.BOOKING}
TerminalFailures == TerminalStatuses \ {AccountStatus.BOOKED}

\* self.steps, lines 74-86 (a Python list, indexed from 0)
steps ==
    <<"Initialize Bot", "Bypass Cloudflare", "Authentication via OAuth",
      "Login Verification", "Country Selection", "City Selection",
      "Book Detail Page", "Personal Info Page", "Calendar Page",
      "Confirmation Page", "Payment Verification">>

\* Python's list[i] for -len <= i < len (a negative index counts from the end)
PyIndex(list, i) == IF i < 0 THEN list[Len(list) + i + 1] ELSE list[i + 1]

\* line 125: self.steps[self.current_step] if self.current_step < len(self.steps) else "Unknown"
StepLabel_Previous(cs) == IF cs < Len(steps) THEN PyIndex(steps, cs - 1) ELSE "Unknown"
StepLabel(cs) == IF cs < Len(steps) THEN PyIndex(steps, cs) ELSE "Unknown"

\* A details string.  An f-string "Step {n}: {label}{text}" is kept as its
\* three parts; a string without a step prefix has n = -1 and label "".
Detail(text) == [text |-> text, n |-> -1, label |-> ""]
StepDetail(n, label, text) == [text |-> text, n |-> n, label |-> label]
None == [text |-> "<None>", n |-> -2, label |-> ""]
NoAccount == "<none>"

\* The instances of SpecSessions and the coroutines running on them
Bots == {1, 2}
Sessions == {"s1", "s2"}
NoBot == 0

\* No send_security_notification call was made yet
NoNotification == [calls |-> 0, file |-> "n/a", result |-> "none"]

\* An instance that was never constructed
Unbuilt == [alive |-> FALSE, account_history |-> <<>>, current_step |-> 0, crashes |-> 0]

\* No coroutine
NoSession == [bot |-> NoBot, email |-> NoAccount, step |-> 0, written |-> 0]

-----------------------------------------------------------------------------
(* update_account_status, lines 90-136 *)

\* lines 98-106: the record created on first use of an email
NewAccount(status, t) ==
    [status |-> status, history |-> <<>>, last_updated |-> t,
     total_attempts |-> 0, last_error |-> None, success |-> FALSE]

\* lines 116-117: the statuses that set last_error
ErrorStatuses == {AccountStatus.LOGIN_FAILED, AccountStatus.FAILED,
                  AccountStatus.BOOKING_FAILED, AccountStatus.CALENDAR_ERROR}

\* lines 121-127: the history entry appended
HistoryEntry(status, details, cs, attempt, t) ==
    [timestamp |-> t, status |-> status, details |-> details,
     step |-> StepLabel(cs), attempt |-> attempt]

\* lines 98-128: the in-memory effect of one call on the account's record;
\* t1 is the clock at line 122, t2 the clock at line 128.
UpdatedAccount_StaleAttempt(ah, e, status, details, cs, t1, t2) ==
    LET old == IF e \in DOMAIN ah THEN ah[e] ELSE NewAccount(status, t1)
        n == old.total_attempts + 1
    IN  [status |-> status,
         history |-> Append(old.history,
                            HistoryEntry(status, details, cs, old.total_attempts, t1)),
         last_updated |-> t2,
         total_attempts |-> n,
         last_error |-> IF status \in ErrorStatuses THEN details ELSE old.last_error,
         success |-> IF status = AccountStatus.BOOKED THEN TRUE ELSE old.success]
UpdatedAccount_ResetsSuccess(ah, e, status, details, cs, t1, t2) ==
    LET old == IF e \in DOMAIN ah THEN ah[e] ELSE NewAccount(status, t1)
        n == old.total_attempts + 1
    IN  [status |-> status,
         history |-> Append(old.history, HistoryEntry(status, details, cs, n, t1)),
         last_updated |-> t2,
         total_attempts |-> n,
         last_error |-> IF status \in ErrorStatuses THEN details ELSE old.last_error,
         success |-> status = AccountStatus.BOOKED]
UpdatedAccount_Rewrites(ah, e, status, details, cs, t1, t2) ==
    LET old == IF e \in DOMAIN ah THEN ah[e] ELSE NewAccount(status, t1)
        n == old.total_attempts + 1
    IN  [status |-> status,
         history |-> <<HistoryEntry(status, details, cs, n, t1)>>,
         last_updated |-> t2,
         total_attempts |-> n,
         last_error |-> IF status \in ErrorStatuses THEN details ELSE old.last_error,
         success |-> IF status = AccountStatus.BOOKED THEN TRUE ELSE old.success]
UpdatedAccount_StampsOnCreation(ah, e, status, details, cs, t1, t2) ==
    LET old == IF e \in DOMAIN ah THEN ah[e] ELSE NewAccount(status, t1)
        n == old.total_attempts + 1
    IN  [status |-> status,
         history |-> Append(old.history, HistoryEntry(status, details, cs, n, t1)),
         last_updated |-> old.last_updated,
         total_attempts |-> n,
         last_error |-> IF status \in ErrorStatuses THEN details ELSE old.last_error,
         success |-> IF status = AccountStatus.BOOKED THEN TRUE ELSE old.success]
UpdatedAccount(ah, e, status, details, cs, t1, t2) ==
    LET old == IF e \in DOMAIN ah THEN ah[e] ELSE NewAccount(status, t1)
        n == old.total_attempts + 1
    IN  [status |-> status,
         history |-> Append(old.history, HistoryEntry(status, details, cs, n, t1)),
         last_updated |-> t2,
         total_attempts |-> n,
         last_error |-> IF status \in ErrorStatuses THEN details ELSE old.last_error,
         success |-> IF status = AccountStatus.BOOKED THEN TRUE ELSE old.success]

\* self.account_history after the call
Updated(ah, e, status, details, cs, t1, t2) ==
    [x \in DOMAIN ah \cup {e} |->
        IF x = e THEN UpdatedAccount(ah, e, status, details, cs, t1, t2) ELSE ah[x]]

\* lines 131-133: json.dump(self.account_history, f): None is written as null
JsonNull == [text |-> "null", n |-> -2, label |-> ""]
json_dump_RoundsTimestamp(ah) ==
    [x \in DOMAIN ah |->
        [ah[x] EXCEPT !.last_error = IF @ = None THEN JsonNull ELSE @,
                      !.history = [i \in 1..Len(@) |-> [@[i] EXCEPT !.timestamp = 0]]]]
json_dump_Buffered(ah) ==
    [x \in DOMAIN ah |->
        [ah[x] EXCEPT !.last_error = IF @ = None THEN JsonNull ELSE @,
                      !.history = SubSeq(@, 1, Len(@) - 1)]]
json_dump(ah) ==
    [x \in DOMAIN ah |->
        [ah[x] EXCEPT !.last_error = IF @ = None THEN JsonNull ELSE @]]
json_load(doc) ==
    [x \in DOMAIN doc |->
        [doc[x] EXCEPT !.last_error = IF @ = JsonNull THEN None ELSE @]]

\* Clock readings: time may pass before a read, up to the largest reading
\* the model explores.
ClockFrom(t) == {u \in t..(t + 1) : u <= MaxClock}

\* One call update_account_status(e, status, details) by the bot whose step
\* index is cs (lines 90-136): record, append, stamp, persist.  The clock is
\* read at line 122 (t1) and again at line 128 (t2).
update_account_status(e, status, details, cs) ==
    \E t1 \in ClockFrom(now) : \E t2 \in ClockFrom(t1) :
        /\ account_history' = Updated(account_history, e, status, details, cs, t1, t2)
        /\ history_file' = json_dump(account_history')
        /\ now' = t2
        /\ calls' = [calls EXCEPT ![e] = @ + 1]

-----------------------------------------------------------------------------
(* Configuration and the page driver *)

\* TLSConfig.CENTERS (module config): the location codes that have a URL
CENTERS == {"PAR"}

\* str.upper() on the location codes explored
upper(c) == IF c = "xxx" THEN "XXX" ELSE c

\* lines 345, 1151: max_retries = 3
max_retries == 3

\* lines 347, 1155: while retry_count < max_retries
LoopContinues(rc) == rc < max_retries

\* lines 353, 1164: if retry_count == max_retries
RetriesExhausted_OneLate(rc) == rc = max_retries + 1
RetriesExhausted(rc) == rc = max_retries

\* lines 1156-1171 (and 348-356): where one attempt of the login-form loop
\* leads, given the check's result and the retry count after it: break on
\* success, raise on the last failure, else back off, reload and loop.
\* What wait_for_selector (line 1157, line 349) can do: return the element,
\* raise its timeout error, or raise any other error
CheckOutcomes == {"found", "timeout", "error"}

\* lines 1162 and 350, except Exception: every error of the check is a
\* failed attempt
CheckFailed_OnlyTimeout(result) == result = "timeout"
CheckFailed(result) == result # "found"

Raised(result) == IF result = "error" THEN 1 ELSE 0

LoopNext_BackoffFirst(found, rc) == IF found THEN "login" ELSE "backoff"
LoopNext_NoBreak(found, rc) ==
    IF found THEN "wait"
    ELSE IF RetriesExhausted(rc) THEN "except" ELSE "backoff"
LoopNext(found, rc) ==
    IF found THEN "login"
    ELSE IF RetriesExhausted(rc) THEN "except" ELSE "backoff"

\* TLSVisaBot.login, lines 496-531: True (and self.logged_in set) when the
\* form was filled and submitted and the post-login marker ".dashboard"
\* appeared within the timeout; every failure inside is caught and gives False.
login_IgnoresMarker(filled, marker) == filled
login(filled, marker) == filled /\ marker

\* The observations of a call, all zero when it starts.
NoObs ==
    [gotos |-> 0,          \* page.goto invocations
     notifications |-> 0,  \* security notifications delivered
     checks |-> 0,         \* login-form checks (wait_for_selector) invoked
     fails |-> 0,          \* login-form checks that failed
     errors |-> 0,         \* login-form checks that raised another error than the timeout
     backoffs |-> 0,       \* backoff delays of the login-form loop
     reloads |-> 0,        \* page.reload invocations of the login-form loop
     exhausted |-> 0,      \* "Login form not found after retries" raised
     loop |-> "none",      \* how the login-form loop ended
     actions |-> 0,        \* page operations performed
     failed |-> FALSE,     \* a step of the workflow failed
     terminal |-> "",      \* the terminal status this call recorded first
     marker |-> "n/a",     \* whether the post-login marker appeared: yes, no
     confirm |-> "n/a",    \* whether the confirm control was there: present, absent
     navigated |-> "n/a",  \* whether the navigation after the click worked: yes, no
     payment |-> FALSE,    \* "Reached payment page" was logged (line 1429)
     artifacts |-> 0,      \* booking_<timestamp>.json files written
     challenge |-> "n/a",  \* whether the challenge was passed: yes, no
     pacing |-> "n/a",      \* whether _human_type typed the credentials: ok, failed
     attempted |-> {},      \* the statuses a failure handler went to record
     base |-> 0]           \* length of the identity's history when the call began

Noted(status) ==
    IF obs.terminal = "" /\ status \in TerminalStatuses THEN status ELSE obs.terminal

-----------------------------------------------------------------------------
(* A caller starts a run: bot.start_workflow(e, password, c) binds the     *)
(* method of lines 334-471; start_workflow(bot, e, password, c) the        *)
(* function of lines 1117-1467.                                            *)

\* How many entries the ledger holds for an identity
HistoryLength(e) ==
    IF e \in DOMAIN account_history THEN Len(account_history[e].history) ELSE 0

Call ==
    /\ pc = "idle"
    /\ runs < MaxRuns
    /\ \E e \in Identities, c \in CenterInputs, d \in {"method", "function"} :
        /\ email' = e
        /\ center' = c
        /\ entry' = d
        /\ pc' = IF d = "method" THEN "cloudflare" ELSE "init"
        /\ obs' = [NoObs EXCEPT !.base = HistoryLength(e)]
    /\ retry_count' = 0
    /\ pending' = "none"
    /\ outcome' = "none"
    /\ runs' = runs + 1
    /\ UNCHANGED <<ledgerVars, botVars, mon>>
    /\ UNCHANGED <<fleetVars, alertVars>>

-----------------------------------------------------------------------------
(* start_workflow, lines 1117-1467 *)

At(d, l) == entry = d /\ pc = l

\* lines 1121-1123
start_workflow_init ==
    /\ At("function", "init")
    /\ current_account' = email
    /\ update_account_status(email, AccountStatus.INIT,
           [text |-> "Starting workflow - ", n |-> -1, label |-> PyIndex(steps, 0)],
           current_step)
    /\ pc' = "cloudflare"
    /\ UNCHANGED <<current_step, logged_in, entry, email, center, retry_count,
                   pending, outcome, runs, obs, mon>>
    /\ UNCHANGED <<fleetVars, alertVars>>

\* lines 1126-1129: self._handle_cloudflare is the method of lines 472-494,
\* which reports a failure by returning False; the result is not looked at.
start_workflow_cloudflare ==
    /\ At("function", "cloudflare")
    /\ \E passed \in BOOLEAN :
        obs' = [obs EXCEPT !.actions = @ + 1, !.challenge = IF passed THEN "yes" ELSE "no"]
    /\ update_account_status(email, AccountStatus.INIT,
           Detail("Successfully bypassed Cloudflare"), current_step)
    /\ pc' = "step1"
    /\ UNCHANGED <<botVars, entry, email, center, retry_count, pending, outcome,
                   runs, mon>>
    /\ UNCHANGED <<fleetVars, alertVars>>

\* lines 1136-1138
start_workflow_step1 ==
    /\ At("function", "step1")
    /\ current_step' = 1
    /\ update_account_status(email, AccountStatus.INIT,
           StepDetail(1, PyIndex(steps, 1 - 1), ""), 1)
    /\ pc' = "goto"
    /\ UNCHANGED <<logged_in, current_account, entry, email, center, retry_count,
                   pending, outcome, runs, obs, mon>>
    /\ UNCHANGED <<fleetVars, alertVars>>

\* lines 1139-1143: TLSConfig.CENTERS[center.upper()] raises KeyError for a
\* code without a URL, before page.goto is called; page.goto may fail; both
\* are caught at line 1141.
start_workflow_goto_SwallowsFailure ==
    /\ At("function", "goto")
    /\ IF upper(center) \notin CENTERS
       THEN /\ update_account_status(email, AccountStatus.NETWORK_ERROR,
                   Detail("KeyError"), current_step)
            /\ obs' = [obs EXCEPT !.failed = TRUE,
                                  !.terminal = Noted(AccountStatus.NETWORK_ERROR)]
            /\ pc' = "step2"
       ELSE \E ok \in BOOLEAN :
            IF ok
            THEN /\ obs' = [obs EXCEPT !.gotos = @ + 1, !.actions = @ + 1]
                 /\ pc' = "step2"
                 /\ UNCHANGED ledgerVars
            ELSE /\ update_account_status(email, AccountStatus.NETWORK_ERROR,
                        Detail("PlaywrightError"), current_step)
                 /\ obs' = [obs EXCEPT !.gotos = @ + 1, !.actions = @ + 1,
                                       !.failed = TRUE,
                                       !.terminal = Noted(AccountStatus.NETWORK_ERROR)]
                 /\ pc' = "step2"
    /\ UNCHANGED <<botVars, entry, email, center, retry_count, pending, outcome,
                   runs, mon>>
    /\ UNCHANGED <<fleetVars, alertVars>>
start_workflow_goto ==
    /\ At("function", "goto")
    /\ IF upper(center) \notin CENTERS
       THEN /\ update_account_status(email, AccountStatus.NETWORK_ERROR,
                   Detail("KeyError"), current_step)
            /\ obs' = [obs EXCEPT !.failed = TRUE,
                                  !.terminal = Noted(AccountStatus.NETWORK_ERROR)]
            /\ pc' = "except"
       ELSE \E ok \in BOOLEAN :
            IF ok
            THEN /\ obs' = [obs EXCEPT !.gotos = @ + 1, !.actions = @ + 1]
                 /\ pc' = "step2"
                 /\ UNCHANGED ledgerVars
            ELSE /\ update_account_status(email, AccountStatus.NETWORK_ERROR,
                        Detail("PlaywrightError"), current_step)
                 /\ obs' = [obs EXCEPT !.gotos = @ + 1, !.actions = @ + 1,
                                       !.failed = TRUE,
                                       !.terminal = Noted(AccountStatus.NETWORK_ERROR)]
                 /\ pc' = "except"
    /\ UNCHANGED <<botVars, entry, email, center, retry_count, pending, outcome,
                   runs, mon>>
    /\ UNCHANGED <<fleetVars, alertVars>>

\* lines 1146-1153
start_workflow_step2 ==
    /\ At("function", "step2")
    /\ current_step' = 2
    /\ update_account_status(email, AccountStatus.INIT,
           StepDetail(2, PyIndex(steps, 2 - 1), " - Waiting for login form"), 2)
    /\ retry_count' = 0
    /\ pc' = "wait"
    /\ UNCHANGED <<logged_in, current_account, entry, email, center, pending,
                   outcome, runs, obs, mon>>
    /\ UNCHANGED <<fleetVars, alertVars>>

\* lines 1155-1169: one evaluation of the loop condition and, when it holds,
\* one attempt: the check, then break, raise or the retry record.
start_workflow_wait ==
    /\ At("function", "wait")
    /\ IF ~LoopContinues(retry_count)
       THEN /\ pc' = "login"
            /\ obs' = [obs EXCEPT !.loop = "left"]
            /\ UNCHANGED <<ledgerVars, retry_count>>
       ELSE \E result \in CheckOutcomes, found \in BOOLEAN :
            /\ found <=> ~CheckFailed(result)
            /\ retry_count' = IF found THEN retry_count ELSE retry_count + 1
            /\ pc' = LoopNext(found, retry_count')
            /\ IF found
               THEN /\ update_account_status(email, AccountStatus.INIT,
                           StepDetail(current_step, "",
                                      "Login form found, starting authentication"),
                           current_step)
                    /\ obs' = [obs EXCEPT !.checks = @ + 1, !.actions = @ + 1,
                                   !.errors = @ + Raised(result),
                                          !.loop = "found"]
               ELSE IF RetriesExhausted(retry_count')
               THEN /\ update_account_status(email, AccountStatus.LOGIN_FAILED,
                           StepDetail(current_step, "",
                                      "Login form not found after 3 retries"),
                           current_step)
                    /\ obs' = [obs EXCEPT !.checks = @ + 1, !.actions = @ + 1,
                                   !.errors = @ + Raised(result),
                                   !.fails = @ + 1, !.exhausted = @ + 1,
                                   !.loop = "exhausted", !.failed = TRUE,
                                   !.terminal = Noted(AccountStatus.LOGIN_FAILED)]
               ELSE /\ update_account_status(email, AccountStatus.INIT,
                           StepDetail(current_step, "", "Retrying to find login form"),
                           current_step)
                    /\ obs' = [obs EXCEPT !.checks = @ + 1, !.actions = @ + 1,
                                   !.errors = @ + Raised(result),
                                          !.fails = @ + 1]
    /\ UNCHANGED <<botVars, entry, email, center, pending, outcome, runs, mon>>
    /\ UNCHANGED <<fleetVars, alertVars>>

\* line 1170: await self._human_delay(5, 8)
start_workflow_backoff ==
    /\ At("function", "backoff")
    /\ obs' = [obs EXCEPT !.backoffs = @ + 1]
    /\ pc' = "reload"
    /\ UNCHANGED <<ledgerVars, botVars, entry, email, center, retry_count, pending,
                   outcome, runs, mon>>
    /\ UNCHANGED <<fleetVars, alertVars>>

\* line 1171: await self.page.reload(); an error of the reload is not caught
\* by the loop and reaches the handler of line 1462.
start_workflow_reload ==
    /\ At("function", "reload")
    /\ \E ok \in BOOLEAN :
        IF ok
        THEN /\ obs' = [obs EXCEPT !.reloads = @ + 1, !.actions = @ + 1]
             /\ pc' = "wait"
        ELSE /\ obs' = [obs EXCEPT !.reloads = @ + 1, !.actions = @ + 1,
                                   !.loop = "aborted", !.failed = TRUE]
             /\ pc' = "except"
    /\ UNCHANGED <<ledgerVars, botVars, entry, email, center, retry_count, pending,
                   outcome, runs, mon>>
    /\ UNCHANGED <<fleetVars, alertVars>>

\* lines 1174-1180
start_workflow_login_SessionExpired ==
    /\ At("function", "login")
    /\ \E filled \in BOOLEAN, marker \in BOOLEAN :
        IF login(filled, marker)
        THEN /\ logged_in' = TRUE
             /\ update_account_status(email, AccountStatus.LOGGED_IN,
                    StepDetail(current_step, "", "Successfully authenticated"),
                    current_step)
             /\ obs' = [obs EXCEPT !.actions = @ + 1, !.marker = IF filled /\ marker THEN "yes" ELSE "no",
                                   !.pacing = IF filled THEN "ok" ELSE "failed"]
             /\ pc' = "step3"
        ELSE /\ logged_in' = logged_in
             /\ update_account_status(email, AccountStatus.SESSION_EXPIRED,
                    Detail("Failed to authenticate"), current_step)
             /\ obs' = [obs EXCEPT !.actions = @ + 1, !.marker = IF filled /\ marker THEN "yes" ELSE "no",
                                   !.pacing = IF filled THEN "ok" ELSE "failed",
                                   !.failed = TRUE,
                                   !.terminal = Noted(AccountStatus.SESSION_EXPIRED)]
             /\ pc' = "except"
    /\ UNCHANGED <<current_step, current_account, entry, email, center,
                   retry_count, pending, outcome, runs, mon>>
    /\ UNCHANGED <<fleetVars, alertVars>>
start_workflow_login ==
    /\ At("function", "login")
    /\ \E filled \in BOOLEAN, marker \in BOOLEAN :
        IF login(filled, marker)
        THEN /\ logged_in' = TRUE
             /\ update_account_status(email, AccountStatus.LOGGED_IN,
                    StepDetail(current_step, "", "Successfully authenticated"),
                    current_step)
             /\ obs' = [obs EXCEPT !.actions = @ + 1, !.marker = IF filled /\ marker THEN "yes" ELSE "no",
                                   !.pacing = IF filled THEN "ok" ELSE "failed"]
             /\ pc' = "step3"
        ELSE /\ logged_in' = logged_in
             /\ update_account_status(email, AccountStatus.LOGIN_FAILED,
                    Detail("Failed to authenticate"), current_step)
             /\ obs' = [obs EXCEPT !.actions = @ + 1, !.marker = IF filled /\ marker THEN "yes" ELSE "no",
                                   !.pacing = IF filled THEN "ok" ELSE "failed",
                                   !.failed = TRUE,
                                   !.terminal = Noted(AccountStatus.LOGIN_FAILED)]
             /\ pc' = "except"
    /\ UNCHANGED <<current_step, current_account, entry, email, center,
                   retry_count, pending, outcome, runs, mon>>
    /\ UNCHANGED <<fleetVars, alertVars>>

\* lines 1183-1185
start_workflow_step3 ==
    /\ At("function", "step3")
    /\ current_step' = 3
    /\ update_account_status(email, AccountStatus.BOOKING,
           StepDetail(3, PyIndex(steps, 3 - 1), " - Starting appointment booking"), 3)
    /\ pc' = "step4"
    /\ UNCHANGED <<logged_in, current_account, entry, email, center, retry_count,
                   pending, outcome, runs, obs, mon>>
    /\ UNCHANGED <<fleetVars, alertVars>>

\* lines 1188-1190
start_workflow_step4 ==
    /\ At("function", "step4")
    /\ current_step' = 4
    /\ update_account_status(email, AccountStatus.BOOKING,
           StepDetail(4, PyIndex(steps, 4 - 1), " - Selecting country"), 4)
    /\ pc' = "goto_base"
    /\ UNCHANGED <<logged_in, current_account, entry, email, center, retry_count,
                   pending, outcome, runs, obs, mon>>
    /\ UNCHANGED <<fleetVars, alertVars>>

\* lines 1193-1200: the statements after the raise of line 1200 (lines
\* 1202-1449, inside the handler) are never executed.
start_workflow_goto_base ==
    /\ At("function", "goto_base")
    /\ \E ok \in BOOLEAN :
        IF ok
        THEN /\ obs' = [obs EXCEPT !.gotos = @ + 1, !.actions = @ + 1]
             /\ pc' = "limit"
             /\ UNCHANGED ledgerVars
        ELSE /\ update_account_status(email, AccountStatus.NETWORK_ERROR,
                    StepDetail(current_step, "", "Navigation error"), current_step)
             /\ obs' = [obs EXCEPT !.gotos = @ + 1, !.actions = @ + 1,
                                   !.failed = TRUE,
                                   !.terminal = Noted(AccountStatus.NETWORK_ERROR)]
             /\ pc' = "except"
    /\ UNCHANGED <<botVars, entry, email, center, retry_count, pending, outcome,
                   runs, mon>>
    /\ UNCHANGED <<fleetVars, alertVars>>

\* lines 1451-1461: with one chance in ten the notification is attempted;
\* a TLSVisaBot has no attribute send_security_notification (the class ends
\* at line 531), so the attempt raises AttributeError; otherwise return False.
start_workflow_limit ==
    /\ At("function", "limit")
    /\ \E chance \in BOOLEAN :
        IF current_account # NoAccount /\ chance
        THEN /\ pc' = "except"
             /\ pending' = pending
        ELSE /\ pc' = "finally"
             /\ pending' = "false"
    /\ UNCHANGED <<ledgerVars, botVars, entry, email, center, retry_count,
                   outcome, runs, obs, mon>>
    /\ UNCHANGED <<fleetVars, alertVars>>

\* lines 1462-1464: log and raise again
start_workflow_except ==
    /\ At("function", "except")
    /\ pending' = "raised"
    /\ pc' = "finally"
    /\ UNCHANGED <<ledgerVars, botVars, entry, email, center, retry_count,
                   outcome, runs, obs, mon>>
    /\ UNCHANGED <<fleetVars, alertVars>>

\* lines 1465-1467: two delays, then the pending return or raise is delivered
start_workflow_finally ==
    /\ At("function", "finally")
    /\ outcome' = pending
    /\ pc' = "idle"
    /\ UNCHANGED <<ledgerVars, botVars, entry, email, center, retry_count,
                   pending, runs, obs, mon>>
    /\ UNCHANGED <<fleetVars, alertVars>>

-----------------------------------------------------------------------------
(* TLSVisaBot.start_workflow, lines 334-471: no status is recorded *)

\* line 338: self._handle_cloudflare() (lines 472-494), result not looked at
TLSVisaBot_start_workflow_cloudflare ==
    /\ At("method", "cloudflare")
    /\ \E passed \in BOOLEAN :
        obs' = [obs EXCEPT !.actions = @ + 1, !.challenge = IF passed THEN "yes" ELSE "no"]
    /\ pc' = "goto"
    /\ UNCHANGED <<ledgerVars, botVars, entry, email, center, retry_count,
                   pending, outcome, runs, mon>>
    /\ UNCHANGED <<fleetVars, alertVars>>

\* lines 341-342: KeyError for a code without a URL, or page.goto, which may fail
TLSVisaBot_start_workflow_goto ==
    /\ At("method", "goto")
    /\ IF upper(center) \notin CENTERS
       THEN /\ obs' = [obs EXCEPT !.failed = TRUE]
            /\ pc' = "except"
       ELSE \E ok \in BOOLEAN :
            /\ obs' = [obs EXCEPT !.gotos = @ + 1, !.actions = @ + 1,
                                  !.failed = ~ok]
            /\ pc' = IF ok THEN "wait" ELSE "except"
    /\ retry_count' = 0
    /\ UNCHANGED <<ledgerVars, botVars, entry, email, center, pending, outcome,
                   runs, mon>>
    /\ UNCHANGED <<fleetVars, alertVars>>

\* lines 347-354
TLSVisaBot_start_workflow_wait ==
    /\ At("method", "wait")
    /\ IF ~LoopContinues(retry_count)
       THEN /\ pc' = "login"
            /\ obs' = [obs EXCEPT !.loop = "left"]
            /\ UNCHANGED retry_count
       ELSE \E result \in CheckOutcomes, found \in BOOLEAN :
            /\ found <=> ~CheckFailed(result)
            /\ retry_count' = IF found THEN retry_count ELSE retry_count + 1
            /\ pc' = LoopNext(found, retry_count')
            /\ obs' = IF found
                      THEN [obs EXCEPT !.checks = @ + 1, !.actions = @ + 1,
                                   !.errors = @ + Raised(result),
                                       !.loop = "found"]
                      ELSE IF RetriesExhausted(retry_count')
                      THEN [obs EXCEPT !.checks = @ + 1, !.actions = @ + 1,
                                   !.errors = @ + Raised(result),
                                       !.fails = @ + 1, !.exhausted = @ + 1,
                                       !.loop = "exhausted", !.failed = TRUE]
                      ELSE [obs EXCEPT !.checks = @ + 1, !.actions = @ + 1,
                                   !.errors = @ + Raised(result),
                                       !.fails = @ + 1]
    /\ UNCHANGED <<ledgerVars, botVars, entry, email, center, pending, outcome,
                   runs, mon>>
    /\ UNCHANGED <<fleetVars, alertVars>>

\* line 355
TLSVisaBot_start_workflow_backoff ==
    /\ At("method", "backoff")
    /\ obs' = [obs EXCEPT !.backoffs = @ + 1]
    /\ pc' = "reload"
    /\ UNCHANGED <<ledgerVars, botVars, entry, email, center, retry_count, pending,
                   outcome, runs, mon>>
    /\ UNCHANGED <<fleetVars, alertVars>>

\* line 356
TLSVisaBot_start_workflow_reload ==
    /\ At("method", "reload")
    /\ \E ok \in BOOLEAN :
        IF ok
        THEN /\ obs' = [obs EXCEPT !.reloads = @ + 1, !.actions = @ + 1]
             /\ pc' = "wait"
        ELSE /\ obs' = [obs EXCEPT !.reloads = @ + 1, !.actions = @ + 1,
                                   !.loop = "aborted", !.failed = TRUE]
             /\ pc' = "except"
    /\ UNCHANGED <<ledgerVars, botVars, entry, email, center, retry_count, pending,
                   outcome, runs, mon>>
    /\ UNCHANGED <<fleetVars, alertVars>>

\* lines 359-465: fill and submit the form, raise if the page title is still
\* "Login", install the scripts, return True
TLSVisaBot_start_workflow_login ==
    /\ At("method", "login")
    /\ \E filled \in BOOLEAN, left_login_page \in BOOLEAN :
        IF filled /\ left_login_page
        THEN /\ obs' = [obs EXCEPT !.actions = @ + 1, !.marker = "yes",
                                   !.pacing = "ok"]
             /\ pending' = "true"
             /\ pc' = "finally"
        ELSE /\ obs' = [obs EXCEPT !.actions = @ + 1, !.marker = "no",
                                   !.pacing = IF filled THEN "ok" ELSE "failed",
                                   !.failed = TRUE]
             /\ pending' = pending
             /\ pc' = "except"
    /\ UNCHANGED <<ledgerVars, botVars, entry, email, center, retry_count,
                   outcome, runs, mon>>
    /\ UNCHANGED <<fleetVars, alertVars>>

\* lines 466-468: log, return False
TLSVisaBot_start_workflow_except ==
    /\ At("method", "except")
    /\ pending' = "false"
    /\ pc' = "finally"
    /\ UNCHANGED <<ledgerVars, botVars, entry, email, center, retry_count,
                   outcome, runs, obs, mon>>
    /\ UNCHANGED <<fleetVars, alertVars>>

\* lines 469-471: the return True of the finally clause replaces the pending
\* return value
TLSVisaBot_start_workflow_finally ==
    /\ At("method", "finally")
    /\ outcome' = "true"
    /\ pc' = "idle"
    /\ UNCHANGED <<ledgerVars, botVars, entry, email, center, retry_count,
                   pending, runs, obs, mon>>
    /\ UNCHANGED <<fleetVars, alertVars>>

-----------------------------------------------------------------------------
(* TLSVisaBot.__init__, lines 66-88 *)

\* The monitor before it is called
MonIdle ==
    [pc |-> "idle",
     elapsed |-> 0,       \* seconds of the time limit used up
     iter |-> 0,          \* polling iterations started
     selected |-> <<>>,   \* the elements the selection action was invoked on
     first |-> "",        \* the first available element of the poll that found one
     seen |-> {},         \* the available elements of the poll that found one
     cancelled |-> FALSE, \* the external cancellation signal is set
     sleeps |-> 0,        \* asyncio.sleep calls of line 1443
     refreshes |-> 0,     \* page.reload calls of line 1448
     notified |-> 0,      \* notifications attempted at line 1455
     found |-> FALSE,     \* a poll has found an available element
     fault |-> FALSE,     \* a page operation of a refresh raised
     pending |-> "none",
     result |-> "none"]

InitAt(t) ==
    /\ account_history = <<>>
    /\ history_file = <<>>
    /\ now = t
    /\ current_step = 0
    /\ logged_in = FALSE
    /\ current_account = NoAccount
    /\ pc = "idle"
    /\ entry = "none"
    /\ email = NoAccount
    /\ center = ""
    /\ retry_count = 0
    /\ pending = "none"
    /\ outcome = "none"
    /\ runs = 0
    /\ obs = NoObs
    /\ calls = [e \in Identities |-> 0]
    /\ mon = MonIdle
    /\ bots = [b \in Bots |-> Unbuilt]
    /\ sessions = [s \in Sessions |-> NoSession]
    /\ security_alerts = <<>>
    /\ notification = NoNotification

\* The steps of a run read the clock only to stamp what they record, so the
\* runs are explored at one clock reading; SpecLedger explores the stamps.
Init == InitAt(MaxClock)

Next ==
    \/ Call
    \/ start_workflow_init
    \/ start_workflow_cloudflare
    \/ start_workflow_step1
    \/ start_workflow_goto
    \/ start_workflow_step2
    \/ start_workflow_wait
    \/ start_workflow_backoff
    \/ start_workflow_reload
    \/ start_workflow_login
    \/ start_workflow_step3
    \/ start_workflow_step4
    \/ start_workflow_goto_base
    \/ start_workflow_limit
    \/ start_workflow_except
    \/ start_workflow_finally
    \/ TLSVisaBot_start_workflow_cloudflare
    \/ TLSVisaBot_start_workflow_goto
    \/ TLSVisaBot_start_workflow_wait
    \/ TLSVisaBot_start_workflow_backoff
    \/ TLSVisaBot_start_workflow_reload
    \/ TLSVisaBot_start_workflow_login
    \/ TLSVisaBot_start_workflow_except
    \/ TLSVisaBot_start_workflow_finally

Spec == Init /\ [][Next]_vars

-----------------------------------------------------------------------------
(* Properties of a run *)

\* A call has been made and has delivered its result to the caller.
Finished == pc = "idle" /\ outcome # "none"

Last(seq) == seq[Len(seq)]

\* The status last written to account_history.json for the identity of the run
PersistedStatus ==
    IF email \in DOMAIN history_file /\ Len(history_file[email].history) > 0
    THEN Last(history_file[email].history).status
    ELSE "<nothing>"

\* C2: whenever start_workflow ends in failure (it raises or returns False),
\* a terminal failure status of the identity was recorded and persisted
\* during that run, before the failure reached the caller.
C2_FailureRecordedBeforeRaised ==
    (Finished /\ outcome \in {"raised", "false"}) =>
        /\ obs.terminal \in TerminalFailures
        /\ PersistedStatus = obs.terminal

\* C3: start_workflow never swallows a step failure: a run in which a step
\* failed does not report success, and a run reports success (returns True)
\* only if it reached the success terminal state BOOKED.
C3_NoSilentSwallow ==
    Finished =>
        /\ obs.failed => outcome # "true"
        /\ outcome = "true" => obs.terminal = AccountStatus.BOOKED

\* C4: once a run has recorded a terminal status, that run performs no
\* further page operation and records no further status.
C4_TerminalEndsRun ==
    [][(obs.terminal # "" /\ pc # "idle") =>
           /\ account_history' = account_history
           /\ history_file' = history_file
           /\ obs'.actions = obs.actions]_vars

C4_Witness ==
    /\ Finished
    /\ outcome = "raised"
    /\ obs.terminal = AccountStatus.LOGIN_FAILED
    /\ obs.marker = "no"

\* C5: a login-form check that fails k-1 times and then succeeds
\* (1 <= k <= max_retries) has been invoked exactly k times when the loop
\* ends, the loop is left for the login, and the check is not invoked again
\* in that run.
C5_RetrySucceedsAfterKChecks ==
    /\ [](obs.loop = "found" =>
            /\ obs.checks = obs.fails + 1
            /\ obs.checks <= max_retries
            /\ obs.exhausted = 0)
    /\ [][(obs.loop # "found" /\ obs'.loop = "found") => pc' = "login"]_vars
    /\ [][(obs.loop = "found" /\ pc # "idle") => obs'.checks = obs.checks]_vars

C5_Witness ==
    /\ obs.loop = "found"
    /\ obs.checks = max_retries
    /\ obs.fails = max_retries - 1
    /\ pc = "idle"

\* C6: a login-form check that fails every time is invoked exactly
\* max_retries times and never more; the exhaustion failure is then raised
\* exactly once, and the function of line 1117 has recorded LOGIN FAILED
\* before it and delivers the raise to its caller.
C6_RetryExhaustsAfterMaxChecks ==
    /\ obs.checks <= max_retries
    /\ obs.exhausted <= 1
    /\ obs.loop # "left"
    /\ obs.fails = max_retries => obs.loop = "exhausted"
    /\ obs.loop = "exhausted" =>
        /\ obs.checks = max_retries
        /\ obs.fails = max_retries
        /\ obs.exhausted = 1
        /\ entry = "function" =>
            /\ obs.terminal = AccountStatus.LOGIN_FAILED
            /\ PersistedStatus = AccountStatus.LOGIN_FAILED
            /\ pc \in {"except", "finally", "idle"}
            /\ pc = "idle" => outcome = "raised"

C6_Witness ==
    /\ Finished
    /\ entry = "function"
    /\ obs.loop = "exhausted"
    /\ obs.checks = max_retries

\* C9: a run started with a location code that has no URL fails before any
\* page.goto and triggers exactly one security notification.
C9_UnknownCenterNotifiesOnce ==
    (Finished /\ upper(center) \notin CENTERS) =>
        /\ outcome \in {"raised", "false"}
        /\ obs.gotos = 0
        /\ obs.notifications = 1

\* C10: with a configured location, when the post-login marker never appears
\* the run of start_workflow (line 1117) ends raised, LOGIN FAILED is the
\* identity's current status and the status of its last history entry, that
\* entry carries the label of step 2, "Authentication via OAuth", and the
\* success flag is false.
C10_LoginFailureEndToEnd ==
    (Finished /\ entry = "function" /\ upper(center) \in CENTERS
        /\ obs.marker = "no") =>
        /\ outcome = "raised"
        /\ email \in DOMAIN account_history
        /\ LET a == account_history[email]
           IN  /\ a.status = AccountStatus.LOGIN_FAILED
               /\ Last(a.history).status = AccountStatus.LOGIN_FAILED
               /\ Last(a.history).step = "Authentication via OAuth"
               /\ a.success = FALSE
               /\ json_load(history_file)[email] = a

C10_Witness ==
    /\ Finished
    /\ entry = "function"
    /\ email = "a@x.com"
    /\ center = "PAR"
    /\ obs.marker = "no"
    /\ account_history[email].status = AccountStatus.LOGIN_FAILED

\* C11: a run of start_workflow (line 1117) in which no step failed ends at the payment step (step 10,
\* "Payment Verification"), returns True, and leaves the identity with the
\* status BOOKED, persisted, and the success flag true.
C11_SuccessEndToEnd ==
    (Finished /\ entry = "function" /\ ~obs.failed) =>
        /\ outcome = "true"
        /\ current_step = Len(steps) - 1
        /\ email \in DOMAIN account_history
        /\ account_history[email].status = AccountStatus.BOOKED
        /\ account_history[email].success = TRUE
        /\ PersistedStatus = AccountStatus.BOOKED

\* C19: within one run current_step starts at 0, changes only by +1, never
\* decreases, and stays within 0..10.
C19_StepProgression ==
    /\ [](pc \in {"init", "cloudflare"} /\ obs = NoObs => current_step = 0)
    /\ [](current_step \in 0..(Len(steps) - 1))
    /\ [][current_step' = current_step \/ current_step' = current_step + 1]_vars

\* C23: a failure caused by a network error is recorded as NETWORK ERROR at
\* every step: a run of start_workflow (line 1117) that ended because the
\* page.reload() of the login-form loop failed has recorded NETWORK ERROR,
\* and that is the persisted status.
C23_NetworkErrorOverrides ==
    (Finished /\ entry = "function" /\ obs.loop = "aborted") =>
        /\ obs.terminal = AccountStatus.NETWORK_ERROR
        /\ PersistedStatus = AccountStatus.NETWORK_ERROR

\* C24: when the challenge has not gone by the timeout, the run of
\* start_workflow (line 1117) records CLOUDFLARE BLOCKED and goes no further:
\* no navigation, no login-form check, no login.
C24_ChallengeBlocks ==
    (entry = "function" /\ obs.challenge = "no") =>
        /\ obs.terminal = AccountStatus.CLOUDFLARE
        /\ pc \in {"except", "finally", "idle"}
        /\ obs.gotos = 0
        /\ obs.checks = 0

\* C27 as stated: when the post-login marker is absent the run records
\* SESSION EXPIRED.
C27_MarkerAbsentSessionExpired ==
    (Finished /\ entry = "function" /\ obs.marker = "no") =>
        obs.terminal = AccountStatus.SESSION_EXPIRED

\* C27, amended: when the post-login marker is absent the run of
\* start_workflow (line 1117) records LOGIN FAILED as its terminal status,
\* and no run records SESSION EXPIRED for any identity.
C27_MarkerAbsentLoginFailed ==
    /\ (entry = "function" /\ obs.marker = "no") =>
            /\ obs.terminal = AccountStatus.LOGIN_FAILED
            /\ PersistedStatus = AccountStatus.LOGIN_FAILED
    /\ \A e \in DOMAIN account_history :
          \A k \in 1..Len(account_history[e].history) :
              account_history[e].history[k].status # AccountStatus.SESSION_EXPIRED

C27_Witness ==
    /\ Finished
    /\ entry = "function"
    /\ email = "b@y.com"
    /\ obs.marker = "no"
    /\ obs.loop = "found"
    /\ obs.fails = 1
    /\ obs.terminal = AccountStatus.LOGIN_FAILED

\* C35: in the login-form loop the backoff delay and the reload run only
\* after a failed check while attempts remain: a success on check k comes
\* after exactly k-1 backoffs and k-1 reloads, the exhaustion after exactly
\* max_retries-1 of each, and none follows the last failed check.
C35_BackoffOnlyBetweenAttempts ==
    /\ obs.backoffs <= max_retries - 1
    /\ obs.backoffs <= obs.fails
    /\ obs.reloads <= obs.backoffs
    /\ obs.loop = "found" =>
          /\ obs.backoffs = obs.checks - 1
          /\ obs.reloads = obs.checks - 1
    /\ obs.loop = "exhausted" =>
          /\ obs.checks = max_retries
          /\ obs.backoffs = max_retries - 1
          /\ obs.reloads = max_retries - 1

C35_Witness ==
    /\ Finished
    /\ entry = "function"
    /\ obs.loop = "exhausted"
    /\ obs.backoffs = max_retries - 1
    /\ obs.reloads = max_retries - 1

\* C36: a login-form check that raises an unexpected error counts as one
\* failed attempt: the loop goes on to the backoff while attempts remain,
\* and the exhaustion failure is raised only by the failure that makes
\* max_retries of them.
C36_UnexpectedErrorIsFailedAttempt ==
    /\ [](obs.errors <= obs.fails)
    /\ [](obs.exhausted > 0 => obs.fails = max_retries)
    /\ [][obs'.errors > obs.errors =>
            /\ obs'.fails = obs.fails + 1
            /\ obs'.fails < max_retries =>
                  /\ pc' = "backoff"
                  /\ obs'.exhausted = 0
                  /\ obs'.loop = "none"
            /\ obs'.fails = max_retries =>
                  /\ pc' = "except"
                  /\ obs'.exhausted = 1
                  /\ obs'.loop = "exhausted"]_vars

C36_Witness ==
    /\ entry = "function"
    /\ obs.errors = max_retries - 1
    /\ obs.fails = max_retries - 1
    /\ obs.loop = "found"
    /\ obs.exhausted = 0

\* C38: every start_workflow call begins at step 0: the first history entry
\* of a run, "Starting workflow", is stamped "Initialize Bot", also when the
\* bot has run before.
C38_RunStartsAtStepZero ==
    [][(At("function", "init") /\ pc' = "cloudflare") =>
          Last(account_history'[email].history).step = PyIndex(steps, 0)]_vars

\* C40: in every history entry whose detail reads "Step n: <label>", the
\* label of the detail is the label in the step field of the same entry.
C40_DetailLabelIsStepField ==
    entry = "function" =>
        \A e \in DOMAIN account_history :
            \A i \in 1..Len(account_history[e].history) :
                LET h == account_history[e].history[i]
                IN  (h.details.n >= 0 /\ h.details.label # "") =>
                        h.details.label = h.step

\* C31: a pacing failure never aborts a session: when _human_type fails
\* while the credentials are typed, the run records no terminal status.
C31_PacingFailureNotTerminal ==
    (entry = "function" /\ obs.pacing = "failed") => obs.terminal = ""

-----------------------------------------------------------------------------
(* The ledger on its own: callers record statuses directly *)

StatusInputs == AllStatuses
DetailInputs == {Detail("timeout")}

TotalCalls == calls["a@x.com"] + calls["b@y.com"]

\* bot.update_account_status(e, status, details)
record_status ==
    /\ TotalCalls < MaxCalls
    /\ \E e \in Identities, status \in StatusInputs, details \in DetailInputs :
        update_account_status(e, status, details, current_step)
    /\ UNCHANGED <<botVars, runVars, mon>>
    /\ UNCHANGED <<fleetVars, alertVars>>

InitLedger == InitAt(0)

NextLedger == record_status

SpecLedger == InitLedger /\ [][NextLedger]_vars

\* C1: for every identity the history holds one entry per
\* update_account_status call, total_attempts equals the history length, and
\* the k-th entry's attempt counter is k.
C1_HistoryCountsCalls ==
    \A e \in Identities :
        IF e \in DOMAIN account_history
        THEN LET a == account_history[e]
             IN  /\ Len(a.history) = calls[e]
                 /\ a.total_attempts = Len(a.history)
                 /\ \A k \in 1..Len(a.history) : a.history[k].attempt = k
        ELSE calls[e] = 0

C1_Witness ==
    /\ "a@x.com" \in DOMAIN account_history
    /\ calls["a@x.com"] = 2
    /\ Len(account_history["a@x.com"].history) = 2
    /\ account_history["a@x.com"].history[2].attempt = 2
    /\ account_history["a@x.com"].total_attempts = 2

\* The entries of a history that carry a terminal status, in order
TerminalEntries(h) == SelectSeq(h, LAMBDA x : x.status \in TerminalStatuses)

\* seq is an initial part of longer, entry for entry
IsPrefix(seq, longer) ==
    /\ Len(seq) <= Len(longer)
    /\ SubSeq(longer, 1, Len(seq)) = seq

\* C12: at every point an account's success flag is true iff the most
\* recent terminal status recorded for the identity is BOOKED; a failure
\* terminal status recorded after BOOKED leaves success false.
C12_SuccessIffLastTerminalBooked ==
    \A e \in DOMAIN account_history :
        LET t == TerminalEntries(account_history[e].history)
        IN  account_history[e].success <=>
                (t # <<>> /\ Last(t).status = AccountStatus.BOOKED)

\* C13: once update_account_status has set an identity's success flag, no
\* later status recorded resets it to false.
C13_SuccessMonotone ==
    [][\A e \in DOMAIN account_history :
            account_history[e].success =>
                e \in DOMAIN account_history' /\ account_history'[e].success]_vars

C13_Witness ==
    /\ "b@y.com" \in DOMAIN account_history
    /\ LET a == account_history["b@y.com"]
       IN  /\ Len(a.history) = 2
           /\ a.history[1].status = AccountStatus.BOOKED
           /\ a.history[2].status = AccountStatus.BOOKING
           /\ a.status = AccountStatus.BOOKING
           /\ a.success = TRUE

\* C14: every update_account_status call leaves every entry recorded before
\* it, of every identity, unchanged and in its position: the old history is
\* an initial part of the new one, and no identity is dropped.
C14_HistoryAppendOnly ==
    [][\A e \in DOMAIN account_history :
            /\ e \in DOMAIN account_history'
            /\ IsPrefix(account_history[e].history, account_history'[e].history)]_vars

C14_Witness ==
    /\ DOMAIN account_history = Identities
    /\ Len(account_history["a@x.com"].history) = 1
    /\ Len(account_history["b@y.com"].history) = 1
    /\ account_history["a@x.com"].history[1].timestamp = 0
    /\ account_history["b@y.com"].history[1].timestamp = 1

\* C15: whenever update_account_status has returned, account_history.json
\* holds the in-memory ledger, the entry just appended included.
C15_WriteThenReturn ==
    /\ json_load(history_file) = account_history
    /\ \A e \in Identities :
          calls[e] > 0 =>
              /\ e \in DOMAIN history_file
              /\ Len(history_file[e].history) = calls[e]
              /\ Last(history_file[e].history) = Last(account_history[e].history)

C15_Witness ==
    /\ TotalCalls = 2
    /\ "b@y.com" \in DOMAIN history_file
    /\ Len(history_file["b@y.com"].history) = 2
    /\ Last(history_file["b@y.com"].history).status = AccountStatus.CALENDAR_ERROR
    /\ history_file["b@y.com"].last_error = Detail("timeout")
    /\ history_file["b@y.com"].status = AccountStatus.CALENDAR_ERROR

C21_LastErrorOnEveryFailure ==
    [][\A e \in Identities :
            calls'[e] = calls[e] + 1 =>
                LET a == account_history'[e]
                    was == e \in DOMAIN account_history /\ account_history[e].success
                IN  /\ a.status \in TerminalFailures =>
                        a.last_error = Last(a.history).details
                    /\ (a.success /\ ~was) => a.status = AccountStatus.BOOKED]_vars

\* C22 as stated: after every call last_updated equals the timestamp of the
\* entry the call appended.
C22_LastUpdatedEqualsEntryTimestamp ==
    \A e \in DOMAIN account_history :
        account_history[e].last_updated = Last(account_history[e].history).timestamp

\* C22, amended: after every call last_updated is a clock reading taken
\* after the one that stamped the appended entry: it is never earlier than
\* that entry's timestamp, nor than any earlier entry's, and never later than
\* the clock.
C22_LastUpdatedNotBeforeEntry ==
    \A e \in DOMAIN account_history :
        LET a == account_history[e]
        IN  /\ a.last_updated >= Last(a.history).timestamp
            /\ a.last_updated <= now
            /\ \A k \in 1..Len(a.history) : a.history[k].timestamp <= a.last_updated

C22_Witness ==
    /\ "a@x.com" \in DOMAIN account_history
    /\ Len(account_history["a@x.com"].history) = 1
    /\ account_history["a@x.com"].history[1].timestamp = 0
    /\ account_history["a@x.com"].last_updated = 1

-----------------------------------------------------------------------------
(* The step label of an entry: the step index moves, statuses are recorded *)

\* self.current_step = n (lines 1136, 1146, 1183, 1188, and whatever a
\* caller assigns to the attribute)
set_current_step ==
    /\ current_step < MaxStep
    /\ current_step' = current_step + 1
    /\ UNCHANGED <<ledgerVars, logged_in, current_account, runVars, mon>>
    /\ UNCHANGED <<fleetVars, alertVars>>

\* bot.update_account_status(e, AccountStatus.BOOKING, details)
record_at_step ==
    /\ TotalCalls < MaxCalls
    /\ \E e \in Identities :
        update_account_status(e, AccountStatus.BOOKING, Detail("timeout"), current_step)
    /\ UNCHANGED <<botVars, runVars, mon>>
    /\ UNCHANGED <<fleetVars, alertVars>>

InitLabel == InitAt(MaxClock)

NextLabel ==
    \/ set_current_step
    \/ record_at_step

SpecLabel == InitLabel /\ [][NextLabel]_vars

\* C20: the entry appended by a call is stamped with steps[current_step], the
\* index being read at the moment of the call, when the index is within the
\* list, and with "Unknown" when it is not.
C20_EntryStampedWithStepLabel ==
    [][\A e \in Identities :
            calls'[e] = calls[e] + 1 =>
                Last(account_history'[e].history).step =
                    IF current_step \in 0..(Len(steps) - 1)
                    THEN steps[current_step + 1]
                    ELSE "Unknown"]_vars

C20_Witness ==
    /\ "a@x.com" \in DOMAIN account_history
    /\ Len(account_history["a@x.com"].history) = 2
    /\ account_history["a@x.com"].history[1].step = "Payment Verification"
    /\ account_history["a@x.com"].history[2].step = "Unknown"
    /\ current_step = Len(steps) + 1

-----------------------------------------------------------------------------
(* Several TLSVisaBot instances and several start_workflow coroutines.  Every *)
(* instance keeps its own account_history and current_step (lines 72-73) and *)
(* writes results/account_history.json, a path relative to the working      *)
(* directory (lines 87, 131); __init__ does not read that file.             *)

\* The statuses and details recorded by the coroutines explored
SessionStatuses == {AccountStatus.INIT, AccountStatus.LOGIN_FAILED}

\* lines 1136, 1146, 1183, 1188: the last step index start_workflow assigns
LastStep == 4

\* TLSVisaBot.__init__, lines 66-88: a new instance starts with an empty
\* ledger and step 0, whatever the file holds
NewBot(crashes) ==
    [alive |-> TRUE, account_history |-> <<>>, current_step |-> 0,
     crashes |-> crashes]

\* lines 98-128 on instance bot: its ledger after one call, stamped with the
\* step index of that instance (line 125)
BotAfterUpdate(bot, e, status, details, t1, t2) ==
    [bot EXCEPT !.account_history =
        Updated(@, e, status, details, bot.current_step, t1, t2)]

\* bot = TLSVisaBot()
TLSVisaBot_init ==
    /\ \E b \in Bots :
        /\ ~bots[b].alive
        /\ bots' = [bots EXCEPT ![b] = NewBot(@.crashes)]
    /\ UNCHANGED <<ledgerVars, botVars, runVars, mon, sessions, alertVars>>

\* The process holding an instance dies: the instance and the coroutines on
\* it are gone, the file stays as last written
crash ==
    /\ \E b \in Bots :
        /\ bots[b].alive
        /\ bots[b].crashes < MaxCrashes
        /\ bots' = [bots EXCEPT ![b] = [Unbuilt EXCEPT !.crashes = bots[b].crashes + 1]]
        /\ sessions' = [s \in Sessions |->
                            IF sessions[s].bot = b THEN NoSession ELSE sessions[s]]
    /\ UNCHANGED <<ledgerVars, botVars, runVars, mon, alertVars>>

\* line 1117: start_workflow(bot, e, password, center) is called; the
\* coroutine has then made no step of its own
session_start ==
    /\ \E s \in Sessions, b \in Bots, e \in Identities :
        /\ sessions[s].bot = NoBot
        /\ bots[b].alive
        /\ sessions' = [sessions EXCEPT ![s] =
                            [bot |-> b, email |-> e, step |-> 0, written |-> 0]]
    /\ UNCHANGED <<ledgerVars, botVars, runVars, mon, bots, alertVars>>

\* lines 1136-1138 (1146-1148, 1183-1185, 1188-1190): the coroutine assigns
\* its next step index to the instance and records it, without an await in
\* between
session_step ==
    /\ TotalCalls < MaxCalls
    /\ \E s \in Sessions :
        /\ sessions[s].bot # NoBot
        /\ sessions[s].step < LastStep
        /\ LET b == sessions[s].bot
               e == sessions[s].email
               n == sessions[s].step + 1
               stepped == [bots[b] EXCEPT !.current_step = n]
           IN  \E t1 \in ClockFrom(now) : \E t2 \in ClockFrom(t1) :
                /\ bots' = [bots EXCEPT ![b] =
                       BotAfterUpdate(stepped, e, AccountStatus.INIT,
                                      StepDetail(n, PyIndex(steps, n - 1), ""), t1, t2)]
                /\ history_file' = json_dump(bots'[b].account_history)
                /\ now' = t2
                /\ calls' = [calls EXCEPT ![e] = @ + 1]
                /\ sessions' = [sessions EXCEPT ![s].step = n, ![s].written = @ + 1]
    /\ UNCHANGED <<account_history, botVars, runVars, mon, alertVars>>

\* lines 1128, 1142, 1157, 1165, 1168, 1176, 1179: after an await the
\* coroutine records a status for its identity on its instance
session_record ==
    /\ TotalCalls < MaxCalls
    /\ \E s \in Sessions, status \in SessionStatuses :
        /\ sessions[s].bot # NoBot
        /\ LET b == sessions[s].bot
               e == sessions[s].email
           IN  \E t1 \in ClockFrom(now) : \E t2 \in ClockFrom(t1) :
                /\ bots' = [bots EXCEPT ![b] =
                       BotAfterUpdate(@, e, status, Detail("timeout"), t1, t2)]
                /\ history_file' = json_dump(bots'[b].account_history)
                /\ now' = t2
                /\ calls' = [calls EXCEPT ![e] = @ + 1]
                /\ sessions' = [sessions EXCEPT ![s].written = @ + 1]
    /\ UNCHANGED <<account_history, botVars, runVars, mon, alertVars>>

InitSessions == InitAt(MaxClock)

NextSessions ==
    \/ TLSVisaBot_init
    \/ crash
    \/ session_start
    \/ session_step
    \/ session_record

SpecSessions == InitSessions /\ [][NextSessions]_vars

\* Only instance 1 has ever existed: one process at a time, restarted after
\* a crash
OneWriter == \A b \in Bots \ {1} : ~bots[b].alive /\ bots[b].crashes = 0

\* No instance has crashed
NoCrash == \A b \in Bots : bots[b].crashes = 0

\* C16: when a process crashes and a new instance later records statuses,
\* the file still holds every entry it held before: each identity's
\* persisted history stays an initial part of what is persisted next.
C16_CrashKeepsPersistedHistory ==
    [][OneWriter =>
        \A e \in DOMAIN history_file :
            /\ e \in DOMAIN history_file'
            /\ IsPrefix(history_file[e].history, history_file'[e].history)]_vars

\* C17: for any interleaving of sessions recording statuses, the file after
\* the last write holds the complete history of every identity recorded so
\* far: one entry per call made for the identity, by whichever session.
C17_StoreHoldsEveryHistory ==
    NoCrash =>
        \A e \in Identities :
            calls[e] > 0 =>
                /\ e \in DOMAIN history_file
                /\ Len(history_file[e].history) = calls[e]

\* C18: every entry a session records for its identity is stamped with the
\* label of that session's own step index, whatever step a session of
\* another identity has reached.
C18_EntryStampedWithOwnStep ==
    [][\A s \in Sessions :
            (/\ sessions[s].bot # NoBot
             /\ \A t \in Sessions \ {s} : sessions[t].email # sessions[s].email
             /\ sessions'[s].written = sessions[s].written + 1) =>
                Last(bots'[sessions[s].bot].account_history[sessions[s].email].history).step
                    = steps[sessions'[s].step + 1]]_vars

-----------------------------------------------------------------------------
(* The calendar monitor, _monitor_calendar.  The source keeps its tail only *)
(* (lines 1442-1467: wait and retry, occasional refresh, the time limit,    *)
(* the handler and the finally clause); its head, the loop over the time    *)
(* limit with the query and the selection, is taken from section 4.4 of the *)
(* specification.  send_security_notification is the definition of lines    *)
(* 1484-1513.                                                               *)

\* The date elements of the calendar page, in document order
Dates == <<"d1", "d2">>

\* query_selector_all('.available'): the available elements, in document order
query_available_Reversed(avail) ==
    LET hits == SelectSeq(Dates, LAMBDA d : d \in avail)
    IN  [i \in 1..Len(hits) |-> hits[Len(hits) + 1 - i]]
query_available(avail) == SelectSeq(Dates, LAMBDA d : d \in avail)

\* line 1443: asyncio.sleep(random.uniform(3, 5)), in whole seconds
SleepChoices == 3..5

\* line 1411: the workflow calls the monitor for the account of the run
monitor_calendar_call ==
    /\ mon.pc = "idle"
    /\ mon' = [mon EXCEPT !.pc = "poll"]
    /\ UNCHANGED <<ledgerVars, botVars, runVars>>
    /\ UNCHANGED <<fleetVars, alertVars>>

\* Section 4.4, steps 1 and 2: while the time limit is not reached, query the
\* listing; if an element is available invoke the selection action on the
\* first one and return success.  The check of the cancellation signal that
\* section 4.4 asks of every iteration is placed here, at its start.
monitor_calendar_poll ==
    /\ mon.pc = "poll"
    /\ IF mon.cancelled
       THEN mon' = [mon EXCEPT !.pending = "cancelled", !.pc = "finally"]
       ELSE IF mon.elapsed >= MaxTime
       THEN mon' = [mon EXCEPT !.pc = "limit"]
       ELSE \E avail \in SUBSET {Dates[i] : i \in DOMAIN Dates} :
            LET hits == query_available(avail)
            IN  IF hits # <<>>
                THEN mon' = [mon EXCEPT !.iter = @ + 1,
                                        !.found = TRUE,
                                        !.first = hits[1],
                                        !.seen = avail,
                                        !.selected = Append(@, hits[1]),
                                        !.pending = "true",
                                        !.pc = "finally"]
                ELSE mon' = [mon EXCEPT !.iter = @ + 1, !.pc = "sleep"]
    /\ UNCHANGED <<ledgerVars, botVars, runVars>>
    /\ UNCHANGED <<fleetVars, alertVars>>

\* lines 1442-1446: no dates available: sleep, then with one chance in ten
\* refresh the page
monitor_calendar_sleep_AlsoWhenFound ==
    /\ mon.pc \in {"sleep", "finally"}
    /\ mon.sleeps < mon.iter
    /\ \E d \in SleepChoices, refresh \in BOOLEAN :
        mon' = [mon EXCEPT !.elapsed = @ + d,
                           !.sleeps = @ + 1,
                           !.pc = IF mon.pc = "finally" THEN "finally"
                                  ELSE IF refresh THEN "refresh" ELSE "poll"]
    /\ UNCHANGED <<ledgerVars, botVars, runVars>>
    /\ UNCHANGED <<fleetVars, alertVars>>
monitor_calendar_sleep ==
    /\ mon.pc = "sleep"
    /\ \E d \in SleepChoices, refresh \in BOOLEAN :
        mon' = [mon EXCEPT !.elapsed = @ + d,
                           !.sleeps = @ + 1,
                           !.pc = IF refresh THEN "refresh" ELSE "poll"]
    /\ UNCHANGED <<ledgerVars, botVars, runVars>>
    /\ UNCHANGED <<fleetVars, alertVars>>

\* lines 1447-1449: page.reload() and wait_for_load_state; an error of either
\* reaches the handler of line 1462
monitor_calendar_refresh ==
    /\ mon.pc = "refresh"
    /\ \E ok \in BOOLEAN :
        mon' = [mon EXCEPT !.refreshes = @ + 1,
                           !.fault = ~ok,
                           !.pc = IF ok THEN "poll" ELSE "except"]
    /\ UNCHANGED <<ledgerVars, botVars, runVars>>
    /\ UNCHANGED <<fleetVars, alertVars>>

\* send_security_notification, lines 1484-1513: "True" when the alert was
\* appended to security_alerts.log, "False" when that failed (the error is
\* caught at line 1511); it raises nothing.
send_security_notification_Raises(log_ok) == IF log_ok THEN "True" ELSE "raise"
send_security_notification(log_ok) == IF log_ok THEN "True" ELSE "False"

\* What can happen to the log file of lines 1503-1506: it is opened and both
\* writes succeed, open() raises, or the separator is written and the write
\* of the body raises.
FileOutcomes == {"ok", "open_fails", "write_fails"}

\* lines 1494-1500: the body of an alert; the Account line is there only for
\* a non-empty account_email (line 1498).
AlertBody(issue_type, details, account_email, t) ==
    [type |-> issue_type, details |-> details, account |-> account_email,
     timestamp |-> t, complete |-> TRUE]

\* line 1505 alone: the separator without a body
Separator ==
    [type |-> "", details |-> "", account |-> NoAccount, timestamp |-> 0,
     complete |-> FALSE]

\* lines 1503-1506: the file is opened in mode "a", so what it held stays
alert_log_after_Truncates(log, body, file) ==
    CASE file = "ok" -> <<body>>
      [] file = "write_fails" -> <<Separator>>
      [] file = "open_fails" -> log
alert_log_after(log, body, file) ==
    CASE file = "ok" -> Append(log, body)
      [] file = "write_fails" -> Append(log, Separator)
      [] file = "open_fails" -> log

\* lines 1451-1461: the time limit is reached: warn, with one chance in ten
\* notify the developer, return False
monitor_calendar_limit ==
    /\ mon.pc = "limit"
    /\ \E chance \in BOOLEAN, file \in FileOutcomes :
        IF current_account # NoAccount /\ chance
        THEN LET sent == send_security_notification(file = "ok")
             IN  /\ mon' = [mon EXCEPT !.notified = @ + 1,
                                       !.pending = "false",
                                       !.pc = IF sent = "raise" THEN "except"
                                              ELSE "finally"]
                 /\ security_alerts' = alert_log_after(security_alerts,
                        AlertBody("Calendar Selectors May Have Changed",
                                  "no available dates", current_account, now),
                        file)
                 /\ notification' = [calls |-> notification.calls + 1,
                                     file |-> file, result |-> sent]
        ELSE /\ mon' = [mon EXCEPT !.pending = "false", !.pc = "finally"]
             /\ UNCHANGED alertVars
    /\ UNCHANGED <<ledgerVars, botVars, runVars>>
    /\ UNCHANGED fleetVars

\* lines 1462-1464: log and raise again
monitor_calendar_except ==
    /\ mon.pc = "except"
    /\ mon' = [mon EXCEPT !.pending = "raised", !.pc = "finally"]
    /\ UNCHANGED <<ledgerVars, botVars, runVars>>
    /\ UNCHANGED <<fleetVars, alertVars>>

\* lines 1465-1467: two delays, then the pending return or raise is delivered
monitor_calendar_finally ==
    /\ mon.pc = "finally"
    /\ mon' = [mon EXCEPT !.result = mon.pending, !.pc = "done"]
    /\ UNCHANGED <<ledgerVars, botVars, runVars>>
    /\ UNCHANGED <<fleetVars, alertVars>>

\* The monitor runs inside a workflow, whose account is set (line 1121).
InitMonitor ==
    /\ account_history = <<>>
    /\ history_file = <<>>
    /\ now = 0
    /\ current_step = 6
    /\ logged_in = TRUE
    /\ current_account \in Identities
    /\ pc = "idle"
    /\ entry = "none"
    /\ email = NoAccount
    /\ center = ""
    /\ retry_count = 0
    /\ pending = "none"
    /\ outcome = "none"
    /\ runs = 0
    /\ obs = NoObs
    /\ calls = [e \in Identities |-> 0]
    /\ mon = MonIdle
    /\ bots = [b \in Bots |-> Unbuilt]
    /\ sessions = [s \in Sessions |-> NoSession]
    /\ security_alerts = <<>>
    /\ notification = NoNotification

NextMonitor ==
    \/ monitor_calendar_call
    \/ monitor_calendar_poll
    \/ monitor_calendar_sleep
    \/ monitor_calendar_refresh
    \/ monitor_calendar_limit
    \/ monitor_calendar_except
    \/ monitor_calendar_finally

\* A started coroutine is run to its end by the event loop.
SpecMonitor == InitMonitor /\ [][NextMonitor]_vars /\ WF_vars(NextMonitor)

Pos(d) == CHOOSE i \in DOMAIN Dates : Dates[i] = d

\* C28: whenever a poll finds one or more available elements, the selection
\* action is invoked on one element only, an available one, and no
\* available element is listed before it.
C28_EarliestListedWins ==
    mon.found =>
        /\ Len(mon.selected) = 1
        /\ mon.selected[1] \in mon.seen
        /\ \A d \in mon.seen : Pos(mon.selected[1]) <= Pos(d)

C28_Witness ==
    /\ mon.pc = "done"
    /\ mon.found
    /\ mon.seen = {"d1", "d2"}
    /\ mon.selected = <<"d1">>
    /\ mon.iter = 1

\* The external cancellation signal is set while the monitor runs (sections
\* 4.4 and 5 of the specification)
cancel_requested ==
    /\ mon.pc \notin {"idle", "done"}
    /\ ~mon.cancelled
    /\ mon' = [mon EXCEPT !.cancelled = TRUE]
    /\ UNCHANGED <<ledgerVars, botVars, runVars, fleetVars, alertVars>>

NextCancel ==
    \/ NextMonitor
    \/ cancel_requested

SpecCancel == InitMonitor /\ [][NextCancel]_vars

\* C29: once the cancellation signal is set the monitor starts no further
\* query, sleep, refresh or selection.
C29_CancelStopsIteration ==
    [][mon.cancelled =>
            /\ mon'.iter = mon.iter
            /\ mon'.sleeps = mon.sleeps
            /\ mon'.refreshes = mon.refreshes
            /\ mon'.selected = mon.selected]_vars

-----------------------------------------------------------------------------
(* The calendar and confirmation steps of start_workflow as they are        *)
(* written, lines 1406-1438, followed by lines 1442-1467.  In the file they *)
(* come after the raise of line 1200, inside its handler, so no run enters  *)
(* them (Spec); SpecBooking starts a coroutine at line 1406 to show what    *)
(* the statements do.  self._monitor_calendar is the monitor above.         *)

\* lines 1406-1411: step 6, then the monitor is awaited
start_workflow_calendar ==
    /\ At("function", "calendar")
    /\ mon.pc = "idle"
    /\ current_step' = 6
    /\ mon' = [mon EXCEPT !.pc = "poll"]
    /\ pc' = "monitoring"
    /\ UNCHANGED <<ledgerVars, logged_in, current_account, entry, email, center,
                   retry_count, pending, outcome, runs, obs, fleetVars,
                   alertVars>>

\* lines 1411-1413: the monitor's result: its error goes to the handler of
\* line 1462; True enters the confirmation; False skips the block of lines
\* 1414-1449
start_workflow_found ==
    /\ At("function", "monitoring")
    /\ mon.pc = "done"
    /\ pc' = IF mon.result = "raised" THEN "except"
             ELSE IF mon.result = "true" THEN "confirm" ELSE "limit"
    /\ obs' = [obs EXCEPT !.failed = mon.result # "true"]
    /\ UNCHANGED <<ledgerVars, botVars, entry, email, center, retry_count,
                   pending, outcome, runs, mon, fleetVars, alertVars>>

\* lines 1414-1424: step 7; the confirm control is looked up; if it is there
\* it is clicked and the navigation awaited, whose error goes to the handler
\* of line 1462; if it is not there nothing is done
start_workflow_confirm ==
    /\ At("function", "confirm")
    /\ current_step' = 7
    /\ \E present \in BOOLEAN, nav_ok \in BOOLEAN :
        IF ~present
        THEN /\ obs' = [obs EXCEPT !.actions = @ + 1, !.confirm = "absent",
                                   !.failed = TRUE]
             /\ pc' = "pause"
        ELSE /\ obs' = [obs EXCEPT !.actions = @ + 2, !.confirm = "present",
                                   !.navigated = IF nav_ok THEN "yes" ELSE "no",
                                   !.failed = ~nav_ok]
             /\ pc' = IF nav_ok THEN "payment" ELSE "except"
    /\ UNCHANGED <<ledgerVars, logged_in, current_account, entry, email, center,
                   retry_count, pending, outcome, runs, mon, fleetVars,
                   alertVars>>

\* lines 1426-1438: step 8, "Reached payment page", the booking details are
\* built and self._save_booking is looked up; _save_booking (lines 1469-1482)
\* is a definition nested in the function start_workflow, not an attribute
\* of TLSVisaBot, so the lookup raises AttributeError and no file is written
start_workflow_payment ==
    /\ At("function", "payment")
    /\ current_step' = 8
    /\ obs' = [obs EXCEPT !.payment = TRUE]
    /\ pc' = "except"
    /\ UNCHANGED <<ledgerVars, logged_in, current_account, entry, email, center,
                   retry_count, pending, outcome, runs, mon, fleetVars,
                   alertVars>>

\* lines 1442-1449, read as the statements that follow the confirmation
\* inside the block of line 1413: a sleep and, one time in ten, a reload
\* whose error goes to the handler of line 1462
start_workflow_pause ==
    /\ At("function", "pause")
    /\ \E refresh \in BOOLEAN, ok \in BOOLEAN :
        /\ pc' = IF refresh /\ ~ok THEN "except" ELSE "limit"
        /\ obs' = [obs EXCEPT !.reloads = IF refresh THEN @ + 1 ELSE @]
    /\ UNCHANGED <<ledgerVars, botVars, entry, email, center, retry_count,
                   pending, outcome, runs, mon, fleetVars, alertVars>>

\* A coroutine of start_workflow(bot, e, password, "PAR") at line 1406
InitBooking ==
    /\ account_history = <<>>
    /\ history_file = <<>>
    /\ now = MaxClock
    /\ current_step = 5
    /\ logged_in = TRUE
    /\ current_account \in Identities
    /\ pc = "calendar"
    /\ entry = "function"
    /\ email = current_account
    /\ center = "PAR"
    /\ retry_count = 0
    /\ pending = "none"
    /\ outcome = "none"
    /\ runs = 1
    /\ obs = NoObs
    /\ calls = [e \in Identities |-> 0]
    /\ mon = MonIdle
    /\ bots = [b \in Bots |-> Unbuilt]
    /\ sessions = [s \in Sessions |-> NoSession]
    /\ security_alerts = <<>>
    /\ notification = NoNotification

NextBooking ==
    \/ start_workflow_calendar
    \/ monitor_calendar_poll
    \/ monitor_calendar_sleep
    \/ monitor_calendar_refresh
    \/ monitor_calendar_limit
    \/ monitor_calendar_except
    \/ monitor_calendar_finally
    \/ start_workflow_found
    \/ start_workflow_confirm
    \/ start_workflow_payment
    \/ start_workflow_pause
    \/ start_workflow_limit
    \/ start_workflow_except
    \/ start_workflow_finally

SpecBooking == InitBooking /\ [][NextBooking]_vars

-----------------------------------------------------------------------------
(* send_security_notification on its own, lines 1484-1513: callers send    *)
(* alerts directly.                                                         *)

IssueTypes == {"Calendar Selectors May Have Changed", "Invalid Center"}

send_security_notification_call ==
    /\ notification.calls < MaxAlerts
    /\ \E issue_type \in IssueTypes, account_email \in Identities \cup {NoAccount},
          file \in FileOutcomes :
        /\ security_alerts' = alert_log_after(security_alerts,
               AlertBody(issue_type, "details", account_email, now), file)
        /\ notification' = [calls |-> notification.calls + 1, file |-> file,
                            result |-> send_security_notification(file = "ok")]
    /\ UNCHANGED <<ledgerVars, botVars, runVars, mon, fleetVars>>

InitAlerts == InitAt(MaxClock)

NextAlerts == send_security_notification_call

SpecAlerts == InitAlerts /\ [][NextAlerts]_vars

-----------------------------------------------------------------------------
(* get_account_report, lines 138-172: callers record statuses and ask for  *)
(* the report of an identity.                                               *)

\* line 148: "No history found for account {email}"
NoHistory(e) ==
    [found |-> FALSE, email |-> e, status |-> "", total_attempts |-> 0,
     last_updated |-> 0, success |-> "No", last_error |-> None, entries |-> <<>>]

\* lines 146-172: the lines of the report; the Last Error line and the
\* Details line of an entry are there only for a non-empty value (None
\* stands for their absence), and the entries are listed by iterating the
\* history list from its first element.
get_account_report_NewestFirst(ah, e) ==
    IF e \notin DOMAIN ah THEN NoHistory(e)
    ELSE [found |-> TRUE, email |-> e, status |-> ah[e].status,
          total_attempts |-> ah[e].total_attempts,
          last_updated |-> ah[e].last_updated,
          success |-> IF ah[e].success THEN "Yes" ELSE "No",
          last_error |-> ah[e].last_error,
          entries |-> [i \in 1..Len(ah[e].history) |->
                          ah[e].history[Len(ah[e].history) + 1 - i]]]
get_account_report(ah, e) ==
    IF e \notin DOMAIN ah THEN NoHistory(e)
    ELSE [found |-> TRUE, email |-> e, status |-> ah[e].status,
          total_attempts |-> ah[e].total_attempts,
          last_updated |-> ah[e].last_updated,
          success |-> IF ah[e].success THEN "Yes" ELSE "No",
          last_error |-> ah[e].last_error,
          entries |-> [i \in 1..Len(ah[e].history) |-> ah[e].history[i]]]

\* The identities a report is asked for: one of them is never recorded
ReportInputs == Identities \cup {"nobody@z.com"}

\* report = bot.get_account_report(e)
get_account_report_call ==
    /\ \E e \in ReportInputs : outcome' = get_account_report(account_history, e)
    /\ UNCHANGED <<ledgerVars, botVars, pc, entry, email, center, retry_count,
                   pending, runs, obs, mon>>
    /\ UNCHANGED <<fleetVars, alertVars>>

InitReport ==
    /\ account_history = <<>>
    /\ history_file = <<>>
    /\ now = MaxClock
    /\ current_step = 0
    /\ logged_in = FALSE
    /\ current_account = NoAccount
    /\ pc = "idle"
    /\ entry = "none"
    /\ email = NoAccount
    /\ center = ""
    /\ retry_count = 0
    /\ pending = "none"
    /\ outcome = NoHistory(NoAccount)
    /\ runs = 0
    /\ obs = NoObs
    /\ calls = [e \in Identities |-> 0]
    /\ mon = MonIdle
    /\ bots = [b \in Bots |-> Unbuilt]
    /\ sessions = [s \in Sessions |-> NoSession]
    /\ security_alerts = <<>>
    /\ notification = NoNotification

NextReport ==
    \/ record_status
    \/ get_account_report_call

SpecReport == InitReport /\ [][NextReport]_vars

\* C33: get_account_report is read-only and total: a report request leaves
\* the in-memory ledger and the persisted store as they were, an identity
\* without a record gets the "no history" report and no record, and the
\* report of a recorded identity lists its history in the recorded order.
C33_ReportReadOnly ==
    [][outcome' # outcome =>
        /\ account_history' = account_history
        /\ history_file' = history_file
        /\ outcome'.email \notin DOMAIN account_history =>
              /\ ~outcome'.found
              /\ outcome'.entries = <<>>
        /\ outcome'.email \in DOMAIN account_history =>
              /\ outcome'.found
              /\ Len(outcome'.entries) = Len(account_history[outcome'.email].history)
              /\ \A i \in 1..Len(outcome'.entries) :
                    outcome'.entries[i] = account_history[outcome'.email].history[i]]_vars

C33_Witness ==
    /\ outcome.found
    /\ Len(outcome.entries) = 2
    /\ outcome.entries[1].status # outcome.entries[2].status
    /\ "nobody@z.com" \notin DOMAIN account_history
    /\ account_history = json_load(history_file)

-----------------------------------------------------------------------------
(* The start_workflow of lines 870-932, written out inside the function of *)
(* line 761 (the definition of lines 533-613 has the same try body and the *)
(* same handler).  Neither is the definition a caller reaches: the name    *)
(* start_workflow is bound again at line 1117.  The handler is modelled as *)
(* it is written, with PlaywrightError naming the error class of the page  *)
(* library; the file does not import that name.                            *)

\* lines 896-901: what the handler tells apart
ErrorKinds == {"PlaywrightError", "Cloudflare", "other"}

start_workflow_870_call ==
    /\ pc = "idle"
    /\ runs < MaxRuns
    /\ \E e \in Identities, c \in CenterInputs :
        /\ email' = e
        /\ center' = c
        /\ obs' = [NoObs EXCEPT !.base = HistoryLength(e)]
    /\ entry' = "variant"
    /\ pc' = "init"
    /\ retry_count' = 0
    /\ pending' = "none"
    /\ outcome' = "none"
    /\ runs' = runs + 1
    /\ UNCHANGED <<ledgerVars, botVars, mon>>
    /\ UNCHANGED <<fleetVars, alertVars>>

\* lines 874-876
start_workflow_870_init ==
    /\ At("variant", "init")
    /\ current_account' = email
    /\ update_account_status(email, AccountStatus.INIT,
           [text |-> "Starting workflow - ", n |-> -1, label |-> PyIndex(steps, 0)],
           current_step)
    /\ pc' = "setup"
    /\ UNCHANGED <<current_step, logged_in, entry, email, center, retry_count,
                   pending, outcome, runs, obs, mon>>
    /\ UNCHANGED <<fleetVars, alertVars>>

\* lines 879-882: setup (lines 191-302) returns True or raises
start_workflow_870_setup ==
    /\ At("variant", "setup")
    /\ \E result \in {"ok"} \cup ErrorKinds :
        IF result = "ok"
        THEN /\ pc' = "cloudflare"
             /\ pending' = pending
             /\ obs' = [obs EXCEPT !.actions = @ + 1]
        ELSE /\ pc' = "except"
             /\ pending' = result
             /\ obs' = [obs EXCEPT !.actions = @ + 1, !.failed = TRUE]
    /\ UNCHANGED <<ledgerVars, botVars, entry, email, center, retry_count,
                   outcome, runs, mon>>
    /\ UNCHANGED <<fleetVars, alertVars>>

\* lines 885-887: the result of _handle_cloudflare is not looked at
start_workflow_870_cloudflare ==
    /\ At("variant", "cloudflare")
    /\ \E passed \in BOOLEAN :
        obs' = [obs EXCEPT !.actions = @ + 1, !.challenge = IF passed THEN "yes" ELSE "no"]
    /\ update_account_status(email, AccountStatus.INIT,
           Detail("Successfully bypassed Cloudflare"), current_step)
    /\ pc' = "step1"
    /\ UNCHANGED <<botVars, entry, email, center, retry_count, pending, outcome,
                   runs, mon>>
    /\ UNCHANGED <<fleetVars, alertVars>>

\* lines 890-894: TLSConfig.CENTERS[center.upper()] raises KeyError for a
\* code without a URL; page.goto may fail
start_workflow_870_step1 ==
    /\ At("variant", "step1")
    /\ current_step' = 1
    /\ update_account_status(email, AccountStatus.INIT,
           StepDetail(1, PyIndex(steps, 1 - 1), ""), 1)
    /\ IF upper(center) \notin CENTERS
       THEN /\ pending' = "other"
            /\ obs' = [obs EXCEPT !.failed = TRUE]
            /\ pc' = "except"
       ELSE \E result \in {"ok"} \cup ErrorKinds :
            IF result = "ok"
            THEN /\ pending' = pending
                 /\ obs' = [obs EXCEPT !.gotos = @ + 1, !.actions = @ + 1]
                 /\ pc' = "after"
            ELSE /\ pending' = result
                 /\ obs' = [obs EXCEPT !.gotos = @ + 1, !.actions = @ + 1,
                                       !.failed = TRUE]
                 /\ pc' = "except"
    /\ UNCHANGED <<logged_in, current_account, entry, email, center, retry_count,
                   outcome, runs, mon>>
    /\ UNCHANGED <<fleetVars, alertVars>>

\* lines 895-903: the handler records NETWORK_ERROR or CLOUDFLARE, or goes
\* to record AccountStatus.ERROR; AccountStatus (lines 48-61) has no ERROR,
\* so evaluating the argument raises AttributeError and nothing is recorded.
start_workflow_870_except ==
    /\ At("variant", "except")
    /\ CASE pending = "PlaywrightError" ->
              /\ update_account_status(email, AccountStatus.NETWORK_ERROR,
                     Detail(pending), current_step)
              /\ obs' = [obs EXCEPT !.attempted = @ \cup {AccountStatus.NETWORK_ERROR},
                                    !.terminal = Noted(AccountStatus.NETWORK_ERROR)]
         [] pending = "Cloudflare" ->
              /\ update_account_status(email, AccountStatus.CLOUDFLARE,
                     Detail(pending), current_step)
              /\ obs' = [obs EXCEPT !.attempted = @ \cup {AccountStatus.CLOUDFLARE},
                                    !.terminal = Noted(AccountStatus.CLOUDFLARE)]
         [] pending = "other" ->
              /\ obs' = [obs EXCEPT !.attempted = @ \cup {"ERROR"}]
              /\ UNCHANGED ledgerVars
    /\ pending' = "raised"
    /\ pc' = "deliver"
    /\ UNCHANGED <<botVars, entry, email, center, retry_count, outcome, runs, mon>>
    /\ UNCHANGED <<fleetVars, alertVars>>

\* lines 910-916: after the try statement the challenge is handled again
\* and recorded; the loop condition of line 916 reads retry_count, which
\* this definition never assigns before: UnboundLocalError
start_workflow_870_after ==
    /\ At("variant", "after")
    /\ update_account_status(email, AccountStatus.INIT,
           Detail("Successfully bypassed Cloudflare"), current_step)
    /\ obs' = [obs EXCEPT !.actions = @ + 1, !.failed = TRUE]
    /\ pending' = "raised"
    /\ pc' = "deliver"
    /\ UNCHANGED <<botVars, entry, email, center, retry_count, outcome, runs, mon>>
    /\ UNCHANGED <<fleetVars, alertVars>>

\* the error reaches the caller
start_workflow_870_deliver ==
    /\ At("variant", "deliver")
    /\ outcome' = pending
    /\ pc' = "idle"
    /\ UNCHANGED <<ledgerVars, botVars, entry, email, center, retry_count,
                   pending, runs, obs, mon>>
    /\ UNCHANGED <<fleetVars, alertVars>>

InitVariant == InitAt(MaxClock)

NextVariant ==
    \/ start_workflow_870_call
    \/ start_workflow_870_init
    \/ start_workflow_870_setup
    \/ start_workflow_870_cloudflare
    \/ start_workflow_870_step1
    \/ start_workflow_870_except
    \/ start_workflow_870_after
    \/ start_workflow_870_deliver

SpecVariant == InitVariant /\ [][NextVariant]_vars

-----------------------------------------------------------------------------
(* The start_workflow of lines 808-868, written out inside the function of *)
(* line 761; like the one of lines 870-932 it is not the definition a      *)
(* caller reaches, and it is modelled as it is written.                    *)

start_workflow_808_call ==
    /\ pc = "idle"
    /\ runs < MaxRuns
    /\ \E e \in Identities, c \in CenterInputs :
        /\ email' = e
        /\ center' = c
        /\ obs' = [NoObs EXCEPT !.base = HistoryLength(e)]
    /\ entry' = "unauthenticated"
    /\ pc' = "init"
    /\ retry_count' = 0
    /\ pending' = "none"
    /\ outcome' = "none"
    /\ runs' = runs + 1
    /\ UNCHANGED <<ledgerVars, botVars, mon>>
    /\ UNCHANGED <<fleetVars, alertVars>>

\* lines 812-814
start_workflow_808_init ==
    /\ At("unauthenticated", "init")
    /\ current_account' = email
    /\ update_account_status(email, AccountStatus.INIT,
           [text |-> "Starting workflow - ", n |-> -1, label |-> PyIndex(steps, 0)],
           current_step)
    /\ pc' = "setup"
    /\ UNCHANGED <<current_step, logged_in, entry, email, center, retry_count,
                   pending, outcome, runs, obs, mon>>
    /\ UNCHANGED <<fleetVars, alertVars>>

\* lines 817-826: an error of setup is recorded as FAILED, return False
start_workflow_808_setup ==
    /\ At("unauthenticated", "setup")
    /\ \E ok \in BOOLEAN :
        IF ok
        THEN /\ pc' = "center"
             /\ obs' = [obs EXCEPT !.actions = @ + 1]
             /\ UNCHANGED <<ledgerVars, outcome>>
        ELSE /\ update_account_status(email, AccountStatus.FAILED, Detail(""),
                    current_step)
             /\ obs' = [obs EXCEPT !.actions = @ + 1, !.failed = TRUE,
                                   !.terminal = Noted(AccountStatus.FAILED)]
             /\ outcome' = "false"
             /\ pc' = "idle"
    /\ UNCHANGED <<botVars, entry, email, center, retry_count, pending, runs, mon>>
    /\ UNCHANGED <<fleetVars, alertVars>>

\* lines 829-835: select the center
start_workflow_808_center ==
    /\ At("unauthenticated", "center")
    /\ \E ok \in BOOLEAN :
        IF ok
        THEN /\ pc' = "calendar"
             /\ obs' = [obs EXCEPT !.actions = @ + 1]
             /\ UNCHANGED <<ledgerVars, outcome>>
        ELSE /\ update_account_status(email, AccountStatus.FAILED, Detail(""),
                    current_step)
             /\ obs' = [obs EXCEPT !.actions = @ + 1, !.failed = TRUE,
                                   !.terminal = Noted(AccountStatus.FAILED)]
             /\ outcome' = "false"
             /\ pc' = "idle"
    /\ UNCHANGED <<botVars, entry, email, center, retry_count, pending, runs, mon>>
    /\ UNCHANGED <<fleetVars, alertVars>>

\* lines 838-856: no calendar or an error is CALENDAR_ERROR, no available
\* date is BOOKING_FAILED, otherwise the first available date is clicked
start_workflow_808_calendar ==
    /\ At("unauthenticated", "calendar")
    /\ \E seen \in {"dates", "no calendar", "no dates", "error"} :
        IF seen = "dates"
        THEN /\ pc' = "booking"
             /\ obs' = [obs EXCEPT !.actions = @ + 1]
             /\ UNCHANGED <<ledgerVars, outcome>>
        ELSE LET status == IF seen = "no dates" THEN AccountStatus.BOOKING_FAILED
                                              ELSE AccountStatus.CALENDAR_ERROR
             IN  /\ update_account_status(email, status, Detail(""), current_step)
                 /\ obs' = [obs EXCEPT !.actions = @ + 1, !.failed = TRUE,
                                       !.terminal = Noted(status)]
                 /\ outcome' = "false"
                 /\ pc' = "idle"
    /\ UNCHANGED <<botVars, entry, email, center, retry_count, pending, runs, mon>>
    /\ UNCHANGED <<fleetVars, alertVars>>

\* lines 859-868: submit; BOOKED and return True when the confirmation
\* appears, BOOKING_FAILED and return False otherwise
start_workflow_808_booking ==
    /\ At("unauthenticated", "booking")
    /\ \E confirmed \in BOOLEAN :
        LET status == IF confirmed THEN AccountStatus.BOOKED
                                   ELSE AccountStatus.BOOKING_FAILED
        IN  /\ update_account_status(email, status, Detail(""), current_step)
            /\ obs' = [obs EXCEPT !.actions = @ + 1, !.failed = ~confirmed,
                                  !.terminal = Noted(status)]
            /\ outcome' = IF confirmed THEN "true" ELSE "false"
    /\ pc' = "idle"
    /\ UNCHANGED <<botVars, entry, email, center, retry_count, pending, runs, mon>>
    /\ UNCHANGED <<fleetVars, alertVars>>

InitUnauthenticated == InitAt(MaxClock)

NextUnauthenticated ==
    \/ start_workflow_808_call
    \/ start_workflow_808_init
    \/ start_workflow_808_setup
    \/ start_workflow_808_center
    \/ start_workflow_808_calendar
    \/ start_workflow_808_booking

SpecUnauthenticated == InitUnauthenticated /\ [][NextUnauthenticated]_vars

\* The entries the running (or last) call has recorded for its identity
RunEntries ==
    IF email \in DOMAIN account_history
    THEN SubSeq(account_history[email].history, obs.base + 1,
                Len(account_history[email].history))
    ELSE <<>>

====
